---- MODULE Spec2Model ----
(***************************************************************************)
(* Model of the fast chemical synapse plugin (src/src/lib.rs): the         *)
(* FastChemicalSynapsePlugin node and the extern "C" entry points of its   *)
(* PluginApi table (create, destroy, meta_json, inputs_json, outputs_json, *)
(* set_config_json, set_input, process, get_output).                       *)
(*                                                                         *)
(* Representation.                                                         *)
(*  - An f64 held in the state is a fixed-point integer: the real x is the *)
(*    integer round(x * Scale).  Inside Plugin::process an f64 carries     *)
(*    sixteen decimals; Add, Sub, Mul, Div and Exp are the f64 operations  *)
(*    +, -, *, / and f64::exp on that representation, and the result is    *)
(*    rounded to nearest when it is stored.  The model covers finite       *)
(*    values whose results stay inside the integer range; the value sets   *)
(*    below are chosen inside it.                                          *)
(*  - A byte buffer (ptr, len) holding a port name is a record with its    *)
(*    pointer (0 is the null pointer) and its bytes.                       *)
(*  - A byte buffer holding a configuration payload is a record with its   *)
(*    pointer and the sequence of JSON lexemes its bytes spell.            *)
(*  - A handle is the address of a heap cell; 0 is the null handle.        *)
(*  - The host keeps the ownership discipline the interface relies on: it  *)
(*    passes the null handle or a handle that create returned and that     *)
(*    destroy has not yet released.                                        *)
(***************************************************************************)
EXTENDS Integers, Sequences, FiniteSets, TLC

VARIABLES
    allocated,  \* the addresses of the live Box<PluginState> allocations
    heap,       \* address -> PluginState (the contents of each allocation)
    call        \* the most recent call through the PluginApi table and its result

vars == <<allocated, heap, call>>

(***************************************************************************)
(* f64 arithmetic                                                          *)
(*                                                                         *)
(* A value held in the state (an input, a parameter, the stored output) is *)
(* the integer round(x * Scale).  Inside a computation an f64 keeps        *)
(* FracLimbs base-Scale digits after the point (sixteen decimals, the      *)
(* precision of an f64 near 1): a sign and a magnitude, the magnitude a    *)
(* sequence of base-Scale digits, least significant first, in units of     *)
(* Scale^-FracLimbs.  Only what is stored is rounded to the state's        *)
(* resolution.                                                             *)
(***************************************************************************)
Scale == 10000

FracLimbs == 4

Abs(a) == IF a < 0 THEN -a ELSE a

Sgn(a) == IF a < 0 THEN -1 ELSE 1

\* round(a / b) for a >= 0, b > 0
RoundDiv(a, b) == (2 * a + b) \div (2 * b)

RECURSIVE Pow10(_)
Pow10(n) == IF n = 0 THEN 1 ELSE 10 * Pow10(n - 1)

\* magnitudes: naturals as base-Scale digit sequences without leading zeros
Limb(a, i) == IF i <= Len(a) THEN a[i] ELSE 0

RECURSIVE Trim(_)
Trim(a) == IF a # <<>> /\ a[Len(a)] = 0 THEN Trim(SubSeq(a, 1, Len(a) - 1)) ELSE a

RECURSIVE Zeros(_)
Zeros(n) == IF n <= 0 THEN <<>> ELSE <<0>> \o Zeros(n - 1)

RECURSIVE Limbs(_)
Limbs(n) == IF n = 0 THEN <<>> ELSE <<n % Scale>> \o Limbs(n \div Scale)

RECURSIVE ToInt(_)
ToInt(a) == IF a = <<>> THEN 0 ELSE a[1] + Scale * ToInt(Tail(a))

RECURSIVE AddCarry(_, _, _, _)
AddCarry(a, b, i, c) ==
    IF i > Len(a) /\ i > Len(b) THEN Limbs(c)
    ELSE LET s == Limb(a, i) + Limb(b, i) + c
         IN  <<s % Scale>> \o AddCarry(a, b, i + 1, s \div Scale)

NAdd(a, b) == AddCarry(a, b, 1, 0)

RECURSIVE SubBorrow(_, _, _, _)
SubBorrow(a, b, i, c) ==
    IF i > Len(a) THEN <<>>
    ELSE LET s == a[i] - Limb(b, i) - c
         IN  <<IF s < 0 THEN s + Scale ELSE s>> \o SubBorrow(a, b, i + 1, IF s < 0 THEN 1 ELSE 0)

\* a - b for a >= b
NSub(a, b) == Trim(SubBorrow(a, b, 1, 0))

RECURSIVE LessFrom(_, _, _)
LessFrom(a, b, i) ==
    IF i = 0 THEN FALSE
    ELSE IF a[i] # b[i] THEN a[i] < b[i]
    ELSE LessFrom(a, b, i - 1)

NLess(a, b) == IF Len(a) # Len(b) THEN Len(a) < Len(b) ELSE LessFrom(a, b, Len(a))

RECURSIVE ConvSum(_, _, _, _)
ConvSum(a, b, i, j) ==
    IF j > Len(a) \/ j > i THEN 0
    ELSE a[j] * Limb(b, i + 1 - j) + ConvSum(a, b, i, j + 1)

RECURSIVE MulCarry(_, _, _, _)
MulCarry(a, b, i, c) ==
    IF i > Len(a) + Len(b) - 1 THEN Limbs(c)
    ELSE LET s == ConvSum(a, b, i, 1) + c
         IN  <<s % Scale>> \o MulCarry(a, b, i + 1, s \div Scale)

NMul(a, b) == IF a = <<>> \/ b = <<>> THEN <<>> ELSE Trim(MulCarry(a, b, 1, 0))

RECURSIVE DivSmallFrom(_, _, _, _)
DivSmallFrom(a, k, i, rem) ==
    IF i = 0 THEN <<>>
    ELSE LET cur == rem * Scale + a[i]
         IN  DivSmallFrom(a, k, i - 1, cur % k) \o <<cur \div k>>

\* floor(a / k) for a small k > 0
NDivSmall(a, k) == Trim(DivSmallFrom(a, k, Len(a), 0))

\* the largest digit d in lo..hi with b * d <= rem
RECURSIVE Digit(_, _, _, _)
Digit(rem, b, lo, hi) ==
    IF lo = hi THEN lo
    ELSE LET mid == (lo + hi + 1) \div 2
         IN  IF NLess(rem, NMul(b, Limbs(mid))) THEN Digit(rem, b, lo, mid - 1)
             ELSE Digit(rem, b, mid, hi)

RECURSIVE DivFrom(_, _, _, _)
DivFrom(a, b, i, rem) ==
    IF i = 0 THEN <<>>
    ELSE LET cur == Trim(<<a[i]>> \o rem)
             d   == Digit(cur, b, 0, Scale - 1)
         IN  IF d = 0 THEN DivFrom(a, b, i - 1, cur) \o <<0>>
             ELSE DivFrom(a, b, i - 1, NSub(cur, NMul(b, Limbs(d)))) \o <<d>>

\* floor(a / b) by long division, b # 0
NDiv(a, b) == Trim(DivFrom(a, b, Len(a), <<>>))

\* an f64 inside a computation
F(neg, mag) == [neg |-> neg /\ mag # <<>>, mag |-> mag]

\* a state value as an f64, and an f64 rounded to a state value
F64(a) == F(a < 0, Trim(Zeros(FracLimbs - 1) \o Limbs(Abs(a))))

Round(x) ==
    LET m == NAdd(x.mag, Zeros(FracLimbs - 2) \o <<Scale \div 2>>)
        q == ToInt(SubSeq(m, FracLimbs, Len(m)))
    IN  IF x.neg THEN -q ELSE q

One == F64(Scale)

\* x + y, x - y, x * y, x / y on f64; the divisor of the synapse equation is
\* 1 + exp(..) and never zero
Add(x, y) ==
    IF x.neg = y.neg THEN F(x.neg, NAdd(x.mag, y.mag))
    ELSE IF NLess(x.mag, y.mag) THEN F(y.neg, NSub(y.mag, x.mag))
    ELSE F(x.neg, NSub(x.mag, y.mag))

Sub(x, y) == Add(x, F(~y.neg, y.mag))

Mul(x, y) ==
    LET m == NMul(x.mag, y.mag)
    IN  F(x.neg # y.neg, Trim(SubSeq(m, FracLimbs + 1, Len(m))))

Div(x, y) == F(x.neg # y.neg, NDiv(Zeros(FracLimbs) \o x.mag, y.mag))

\* exp(r) for 0 <= r <= 1 by its power series, summed until a term no longer
\* changes the sum
RECURSIVE ExpSeries(_, _, _, _)
ExpSeries(r, n, term, acc) ==
    LET t   == F(FALSE, NDivSmall(Mul(term, r).mag, n))
        sum == Add(acc, t)
    IN  IF sum = acc THEN acc ELSE ExpSeries(r, n + 1, t, sum)

ExpFrac(r) == ExpSeries(r, 1, One, One)

\* e and 1/e
Euler == ExpFrac(One)

InvEuler == Div(One, Euler)

\* v * e^k
RECURSIVE ScaleByE(_, _)
ScaleByE(v, k) ==
    LET w == Mul(v, IF k > 0 THEN Euler ELSE InvEuler)
    IN  IF k = 0 THEN v
        ELSE IF w.mag = <<>> THEN w
        ELSE ScaleByE(w, IF k > 0 THEN k - 1 ELSE k + 1)

\* f64::exp: exp(x) = e^k * exp(r) with k = floor(x) and 0 <= r < 1
Exp(x) ==
    LET whole == ToInt(SubSeq(x.mag, FracLimbs + 1, Len(x.mag)))
        frac  == F(FALSE, Trim(SubSeq(x.mag, 1, IF Len(x.mag) < FracLimbs
                                                  THEN Len(x.mag) ELSE FracLimbs)))
        k     == IF ~x.neg THEN whole ELSE IF frac.mag = <<>> THEN -whole ELSE -whole - 1
        r     == IF ~x.neg \/ frac.mag = <<>> THEN frac ELSE Sub(One, frac)
    IN  ScaleByE(ExpFrac(r), k)

(***************************************************************************)
(* FastChemicalSynapsePlugin                                               *)
(***************************************************************************)
\* "pre", "post", "i_syn" as bytes
PRE == <<112, 114, 101>>

POST == <<112, 111, 115, 116>>

ISYN == <<105, 95, 115, 121, 110>>

INPUTS == <<"pre", "post">>

OUTPUTS == <<"i_syn">>

DefaultGFast == 2080

DefaultESyn == -19200

DefaultSFast == 4400

DefaultVFast == -16600

\* FastChemicalSynapsePlugin::new (meta, inputs and outputs never change and
\* are the operators META, INPUTS and OUTPUTS)
New(id) ==
    [ id     |-> id,
      pre    |-> 0,
      post   |-> 0,
      output |-> 0,
      g_fast |-> DefaultGFast,
      e_syn  |-> DefaultESyn,
      s_fast |-> DefaultSFast,
      v_fast |-> DefaultVFast ]

META ==
    [ name         |-> "Fast Chemical Synapse",
      default_vars |-> << <<"g_fast", DefaultGFast>>, <<"e_syn", DefaultESyn>>,
                          <<"s_fast", DefaultSFast>>, <<"v_fast", DefaultVFast>> >> ]

\* the arithmetic of Plugin::process: the value it stores in output
ProcessOutput(p) ==
    LET exp_val == Exp(Mul(F64(p.s_fast), Sub(F64(p.v_fast), F64(p.pre))))
    IN  Round(Div(Mul(F64(p.g_fast), Sub(F64(p.post), F64(p.e_syn))), Add(One, exp_val)))

\* ProcessOutput tabulated for the parameter and input values the
\* specifications below draw from: a lookup in place of a recomputation (the
\* merge with the empty function makes TLC compute the table once)
MemoKey(p) == <<p.g_fast, p.e_syn, p.s_fast, p.v_fast, p.pre, p.post>>

MemoInputs == {-3 * Scale, -2 * Scale, 0, (3 * Scale) \div 2}

MemoKeys ==
    {DefaultGFast, Scale} \X {DefaultESyn, -Scale} \X {DefaultSFast, Scale}
        \X {DefaultVFast, 0} \X MemoInputs \X MemoInputs

ProcessMemo ==
    [k \in MemoKeys |->
        ProcessOutput([g_fast |-> k[1], e_syn |-> k[2], s_fast |-> k[3], v_fast |-> k[4],
                       pre |-> k[5], post |-> k[6]])] @@ <<>>

\* Plugin::process: the mutant adds pre to v_fast instead of subtracting it
PluginProcessSignSlip(p, ctx) ==
    LET exp_val == Exp(Mul(F64(p.s_fast), Add(F64(p.v_fast), F64(p.pre))))
    IN  [p EXCEPT !.output =
            Round(Div(Mul(F64(p.g_fast), Sub(F64(p.post), F64(p.e_syn))), Add(One, exp_val)))]

PluginProcess(p, ctx) ==
    [p EXCEPT !.output =
        IF MemoKey(p) \in MemoKeys THEN ProcessMemo[MemoKey(p)] ELSE ProcessOutput(p)]

\* PluginContext::default()
DefaultContext == [tick |-> 0]

\* the PluginState that create boxes
NewState(id) == [plugin |-> New(id), ctx |-> DefaultContext]

(***************************************************************************)
(* str::from_utf8                                                          *)
(***************************************************************************)
IsCont(b) == b >= 128 /\ b <= 191

\* whether bytes[i..] is well-formed UTF-8
RECURSIVE ValidUtf8(_, _)
ValidUtf8(bytes, i) ==
    LET n == Len(bytes)
        b == bytes[i]
        Cont(j) == j <= n /\ IsCont(bytes[j])
        Second(lo, hi) == i + 1 <= n /\ bytes[i + 1] >= lo /\ bytes[i + 1] <= hi
    IN  IF i > n THEN TRUE
        ELSE IF b < 128 THEN ValidUtf8(bytes, i + 1)
        ELSE IF b >= 194 /\ b <= 223 THEN Cont(i + 1) /\ ValidUtf8(bytes, i + 2)
        ELSE IF b = 224 THEN Second(160, 191) /\ Cont(i + 2) /\ ValidUtf8(bytes, i + 3)
        ELSE IF b = 237 THEN Second(128, 159) /\ Cont(i + 2) /\ ValidUtf8(bytes, i + 3)
        ELSE IF b >= 225 /\ b <= 239
             THEN Cont(i + 1) /\ Cont(i + 2) /\ ValidUtf8(bytes, i + 3)
        ELSE IF b = 240
             THEN Second(144, 191) /\ Cont(i + 2) /\ Cont(i + 3) /\ ValidUtf8(bytes, i + 4)
        ELSE IF b >= 241 /\ b <= 243
             THEN Cont(i + 1) /\ Cont(i + 2) /\ Cont(i + 3) /\ ValidUtf8(bytes, i + 4)
        ELSE IF b = 244
             THEN Second(128, 143) /\ Cont(i + 2) /\ Cont(i + 3) /\ ValidUtf8(bytes, i + 4)
        ELSE FALSE

\* Ok(s) or Err
FromUtf8(bytes) == [ok |-> ValidUtf8(bytes, 1), s |-> bytes]

(***************************************************************************)
(* serde_json: from_slice::<Value>, Value::get, Value::as_f64, to_string   *)
(***************************************************************************)
\* the lexemes of a payload: punctuation, strings, numbers (mantissa and
\* decimal exponent), the literals true/false/null, and bytes that begin no
\* JSON lexeme
TPunct(c) == [k |-> c, s |-> "", m |-> 0, e |-> 0]

TStr(s) == [k |-> "str", s |-> s, m |-> 0, e |-> 0]

TNum(m, e) == [k |-> "num", s |-> "", m |-> m, e |-> e]

TLit(s) == [k |-> "lit", s |-> s, m |-> 0, e |-> 0]

TBad == [k |-> "bad", s |-> "", m |-> 0, e |-> 0]

\* a serde_json::Value
Value(t, s, m, e, members) == [t |-> t, s |-> s, m |-> m, e |-> e, members |-> members]

ParseFail == [ok |-> FALSE, v |-> Value("null", "", 0, 0, <<>>), next |-> 0]

ParseOk(v, next) == [ok |-> TRUE, v |-> v, next |-> next]

\* one JSON value starting at lexeme i; objects keep their members in the
\* order read (Value::get takes the last of equal keys, as Map::insert does)
\* A number lexeme mantissa * 10^exponent whose f64 would be infinite is an
\* error (number out of range): the value exceeds f64::MAX, about
\* 1.797693134e308.  A value too small for an f64 is 0.0, and no error.
RECURSIVE NumDigits(_)
NumDigits(n) == IF n < 10 THEN 1 ELSE 1 + NumDigits(n \div 10)

F64MaxDigits == 309

F64MaxLead == 1797693134

NumberOutOfRange(m, e) ==
    LET d == NumDigits(Abs(m))
    IN  /\ m # 0 /\ e >= 0
        /\ \/ d + e > F64MaxDigits
           \/ d + e = F64MaxDigits /\ Abs(m) > F64MaxLead \div Pow10(10 - d)

\* serde_json's Deserializer starts with remaining_depth = 128, takes one off
\* on entering an object or an array and fails when none is left
RecursionLimit == 128

RECURSIVE ParseValue(_, _, _), ParseMembers(_, _, _, _, _), ParseElements(_, _, _, _, _)
ParseValue(toks, i, depth) ==
    IF i > Len(toks) THEN ParseFail
    ELSE LET tk == toks[i]
         IN  IF tk.k = "num" /\ NumberOutOfRange(tk.m, tk.e) THEN ParseFail
             ELSE IF tk.k = "num" THEN ParseOk(Value("num", "", tk.m, tk.e, <<>>), i + 1)
             ELSE IF tk.k = "str" THEN ParseOk(Value("str", tk.s, 0, 0, <<>>), i + 1)
             ELSE IF tk.k = "lit" THEN ParseOk(Value("lit", tk.s, 0, 0, <<>>), i + 1)
             ELSE IF tk.k \in {"{", "["} /\ depth - 1 = 0 THEN ParseFail
             ELSE IF tk.k = "{" THEN ParseMembers(toks, i + 1, <<>>, TRUE, depth - 1)
             ELSE IF tk.k = "[" THEN ParseElements(toks, i + 1, <<>>, TRUE, depth - 1)
             ELSE ParseFail

ParseMembers(toks, i, acc, first, depth) ==
    IF i > Len(toks) THEN ParseFail
    ELSE IF first /\ toks[i].k = "}" THEN ParseOk(Value("obj", "", 0, 0, acc), i + 1)
    ELSE IF i + 1 > Len(toks) \/ toks[i].k # "str" \/ toks[i + 1].k # ":" THEN ParseFail
    ELSE LET r == ParseValue(toks, i + 2, depth)
             members == Append(acc, [key |-> toks[i].s, val |-> r.v])
         IN  IF ~r.ok \/ r.next > Len(toks) THEN ParseFail
             ELSE IF toks[r.next].k = "," THEN ParseMembers(toks, r.next + 1, members, FALSE, depth)
             ELSE IF toks[r.next].k = "}"
                  THEN ParseOk(Value("obj", "", 0, 0, members), r.next + 1)
             ELSE ParseFail

ParseElements(toks, i, acc, first, depth) ==
    IF i > Len(toks) THEN ParseFail
    ELSE IF first /\ toks[i].k = "]" THEN ParseOk(Value("arr", "", 0, 0, acc), i + 1)
    ELSE LET r == ParseValue(toks, i, depth)
             members == Append(acc, [key |-> "", val |-> r.v])
         IN  IF ~r.ok \/ r.next > Len(toks) THEN ParseFail
             ELSE IF toks[r.next].k = "," THEN ParseElements(toks, r.next + 1, members, FALSE, depth)
             ELSE IF toks[r.next].k = "]"
                  THEN ParseOk(Value("arr", "", 0, 0, members), r.next + 1)
             ELSE ParseFail

\* how many objects and arrays are open after lexeme i
Depth(toks, i) ==
    Cardinality({j \in 1..i : toks[j].k \in {"{", "["}})
        - Cardinality({j \in 1..i : toks[j].k \in {"}", "]"}})

\* whether some object or array of the document opens RecursionLimit deep:
\* the parser then fails there, unless it has failed before
ExceedsRecursionLimit(toks) ==
    \E i \in RecursionLimit..Len(toks) :
        toks[i].k \in {"{", "["} /\ Depth(toks, i) >= RecursionLimit

\* serde_json::from_slice::<Value>: one value and nothing after it; a
\* document that exceeds the recursion limit is rejected from its brackets,
\* without descending into it
FromSlice(toks) ==
    LET r == ParseValue(toks, 1, RecursionLimit)
    IN  IF ExceedsRecursionLimit(toks) THEN [ok |-> FALSE, v |-> ParseFail.v]
        ELSE IF r.ok /\ r.next = Len(toks) + 1 THEN [ok |-> TRUE, v |-> r.v]
        ELSE [ok |-> FALSE, v |-> ParseFail.v]

None == [some |-> FALSE, x |-> 0]

Some(x) == [some |-> TRUE, x |-> x]

\* the f64 a JSON number denotes: mantissa * 10^exponent
NumToF64(m, e) ==
    IF e >= 0 THEN m * Pow10(e) * Scale
    ELSE Sgn(m) * RoundDiv(Abs(m) * Scale, Pow10(-e))

\* json.get(key).and_then(|v| v.as_f64())
GetF64(json, key) ==
    LET hits == {i \in 1..Len(json.members) : json.members[i].key = key}
        last == CHOOSE i \in hits : \A j \in hits : j <= i
    IN  IF json.t # "obj" \/ hits = {} THEN None
        ELSE IF json.members[last].val.t # "num" THEN None
        ELSE Some(NumToF64(json.members[last].val.m, json.members[last].val.e))

Quote(s) == "\"" \o s \o "\""

RECURSIVE JoinQuoted(_)
JoinQuoted(names) ==
    IF names = <<>> THEN ""
    ELSE IF Len(names) = 1 THEN Quote(names[1])
    ELSE Quote(names[1]) \o "," \o JoinQuoted(Tail(names))

\* serde_json::to_string of a slice of strings
ArrayToString(names) == "[" \o JoinQuoted(names) \o "]"

RECURSIVE JoinPairs(_)
JoinPairs(pairs) ==
    IF pairs = <<>> THEN ""
    ELSE IF Len(pairs) = 1 THEN Quote(pairs[1][1]) \o ":" \o Quote(pairs[1][2])
    ELSE Quote(pairs[1][1]) \o ":" \o Quote(pairs[1][2]) \o "," \o JoinPairs(Tail(pairs))

\* Value::to_string of an object of strings; the map keeps its keys sorted
ObjectToString(pairs) == "{" \o JoinPairs(pairs) \o "}"

(***************************************************************************)
(* The extern "C" entry points, as functions of the state they touch       *)
(***************************************************************************)
NULL == 0

\* a (ptr, len) port-name buffer and a (data, len) payload buffer
Buf(bytes) == [ptr |-> 1, bytes |-> bytes]

NullBuf == [ptr |-> NULL, bytes |-> <<>>]

Data(toks) == [ptr |-> 1, toks |-> toks]

NullData == [ptr |-> NULL, toks |-> <<>>]

\* what an address holds while no allocation lives there
Unallocated == NewState(0)

\* &mut *(handle as *mut PluginState): the state behind a handle is that
\* handle's alone.  The mutant keeps one state shared by every live handle.
StoreShared(hp, h, st) == [a \in DOMAIN hp |-> IF a \in allocated THEN st ELSE hp[a]]

Store(hp, h, st) == [hp EXCEPT ![h] = st]

\* the body of set_config_json once the handle and data are known non-null.
\* The mutant resets every parameter to its default on an unparseable payload.
ApplyConfigResetOnError(state, toks) ==
    LET parsed == FromSlice(toks)
        g == GetF64(parsed.v, "g_fast")
        e == GetF64(parsed.v, "e_syn")
        s == GetF64(parsed.v, "s_fast")
        v == GetF64(parsed.v, "v_fast")
    IN  IF ~parsed.ok
        THEN [state EXCEPT !.plugin.g_fast = DefaultGFast, !.plugin.e_syn = DefaultESyn,
                           !.plugin.s_fast = DefaultSFast, !.plugin.v_fast = DefaultVFast]
        ELSE [state EXCEPT !.plugin.g_fast = IF g.some THEN g.x ELSE @,
                           !.plugin.e_syn  = IF e.some THEN e.x ELSE @,
                           !.plugin.s_fast = IF s.some THEN s.x ELSE @,
                           !.plugin.v_fast = IF v.some THEN v.x ELSE @]

ApplyConfig(state, toks) ==
    LET parsed == FromSlice(toks)
        g == GetF64(parsed.v, "g_fast")
        e == GetF64(parsed.v, "e_syn")
        s == GetF64(parsed.v, "s_fast")
        v == GetF64(parsed.v, "v_fast")
    IN  IF ~parsed.ok THEN state
        ELSE [state EXCEPT !.plugin.g_fast = IF g.some THEN g.x ELSE @,
                           !.plugin.e_syn  = IF e.some THEN e.x ELSE @,
                           !.plugin.s_fast = IF s.some THEN s.x ELSE @,
                           !.plugin.v_fast = IF v.some THEN v.x ELSE @]

\* the body of set_input once the handle and port are known non-null.
\* Mutants: the write also recomputes the output; the fall-through arm
\* writes pre.
WriteInputEager(state, bytes, value) ==
    LET name == FromUtf8(bytes)
        written == IF name.ok /\ name.s = PRE THEN [state EXCEPT !.plugin.pre = value]
                   ELSE IF name.ok /\ name.s = POST THEN [state EXCEPT !.plugin.post = value]
                   ELSE state
    IN  [written EXCEPT !.plugin = PluginProcess(written.plugin, written.ctx)]

WriteInputDefaultArm(state, bytes, value) ==
    LET name == FromUtf8(bytes)
    IN  IF name.ok /\ name.s = POST THEN [state EXCEPT !.plugin.post = value]
        ELSE [state EXCEPT !.plugin.pre = value]

WriteInput(state, bytes, value) ==
    LET name == FromUtf8(bytes)
    IN  IF name.ok /\ name.s = PRE THEN [state EXCEPT !.plugin.pre = value]
        ELSE IF name.ok /\ name.s = POST THEN [state EXCEPT !.plugin.post = value]
        ELSE state

\* the body of process once the handle is known non-null.  The mutant keeps
\* the output of a tick it has already seen.
AdvanceCached(state, tick) ==
    IF state.ctx.tick = tick THEN state
    ELSE LET ctx == [state.ctx EXCEPT !.tick = tick]
         IN  [plugin |-> PluginProcess(state.plugin, ctx), ctx |-> ctx]

Advance(state, tick) ==
    LET ctx == [state.ctx EXCEPT !.tick = tick]
    IN  [plugin |-> PluginProcess(state.plugin, ctx), ctx |-> ctx]

\* get_output.  Mutants: every decodable name reads the output; a null
\* handle or port reads as -1.0.
ReadOutputAnyName(hp, h, port) ==
    IF h = NULL \/ port.ptr = NULL THEN 0
    ELSE LET name == FromUtf8(port.bytes)
         IN  IF name.ok THEN hp[h].plugin.output ELSE 0

ReadOutputNullSentinel(hp, h, port) ==
    IF h = NULL \/ port.ptr = NULL THEN -Scale
    ELSE LET name == FromUtf8(port.bytes)
         IN  IF name.ok /\ name.s = ISYN THEN hp[h].plugin.output ELSE 0

ReadOutput(hp, h, port) ==
    IF h = NULL \/ port.ptr = NULL THEN 0
    ELSE LET name == FromUtf8(port.bytes)
         IN  IF name.ok /\ name.s = ISYN THEN hp[h].plugin.output ELSE 0

\* meta_json, inputs_json, outputs_json: the handle is not read
MetaText(h) ==
    ObjectToString(<< <<"kind", "fast_chemical_synapse">>, <<"name", META.name>> >>)

InputsText(h) == ArrayToString(INPUTS)

OutputsText(h) == ArrayToString(OUTPUTS)

(***************************************************************************)
(* The calls the host makes                                                *)
(***************************************************************************)
NoCall ==
    [op |-> "load", h |-> NULL, id |-> 0, port |-> NullBuf, data |-> NullData,
     value |-> 0, tick |-> 0, ret |-> 0, text |-> ""]

Create(id) ==
    \E a \in DOMAIN heap \ allocated :
        /\ allocated' = allocated \cup {a}
        /\ heap' = Store(heap, a, NewState(id))
        /\ call' = [NoCall EXCEPT !.op = "create", !.id = id, !.ret = a]

Destroy(h) ==
    /\ allocated' = allocated \ {h}
    /\ heap' = IF h # NULL THEN [heap EXCEPT ![h] = Unallocated] ELSE heap
    /\ call' = [NoCall EXCEPT !.op = "destroy", !.h = h]

MetaJson(h) ==
    /\ UNCHANGED <<allocated, heap>>
    /\ call' = [NoCall EXCEPT !.op = "meta_json", !.h = h, !.text = MetaText(h)]

InputsJson(h) ==
    /\ UNCHANGED <<allocated, heap>>
    /\ call' = [NoCall EXCEPT !.op = "inputs_json", !.h = h, !.text = InputsText(h)]

OutputsJson(h) ==
    /\ UNCHANGED <<allocated, heap>>
    /\ call' = [NoCall EXCEPT !.op = "outputs_json", !.h = h, !.text = OutputsText(h)]

SetConfigJson(h, data) ==
    /\ UNCHANGED allocated
    /\ heap' = IF h = NULL \/ data.ptr = NULL THEN heap
               ELSE Store(heap, h, ApplyConfig(heap[h], data.toks))
    /\ call' = [NoCall EXCEPT !.op = "set_config_json", !.h = h, !.data = data]

SetInput(h, port, value) ==
    /\ UNCHANGED allocated
    /\ heap' = IF h = NULL \/ port.ptr = NULL THEN heap
               ELSE Store(heap, h, WriteInput(heap[h], port.bytes, value))
    /\ call' = [NoCall EXCEPT !.op = "set_input", !.h = h, !.port = port, !.value = value]

Process(h, tick) ==
    /\ UNCHANGED allocated
    /\ heap' = IF h = NULL THEN heap ELSE Store(heap, h, Advance(heap[h], tick))
    /\ call' = [NoCall EXCEPT !.op = "process", !.h = h, !.tick = tick]

GetOutput(h, port) ==
    /\ UNCHANGED <<allocated, heap>>
    /\ call' = [NoCall EXCEPT !.op = "get_output", !.h = h, !.port = port,
                              !.ret = ReadOutput(heap, h, port)]

(***************************************************************************)
(* The arguments the host draws from                                       *)
(***************************************************************************)
MaxTick == 1

Ticks == 0..MaxTick

\* 0.0 and -2.0; and -3.0, 0.0 and 1.5
InputValues == {0, -2 * Scale}

WideValues == {-3 * Scale, 0, (3 * Scale) \div 2}

\* port-name buffers: the three declared names, near misses ("Pre", "pre\0",
\* "", "pr"), a two-byte character, bytes that are not UTF-8 (alone, after
\* "pre", a cut-off character) and the null pointer
Ports ==
    { Buf(PRE), Buf(POST), Buf(ISYN), Buf(<<80, 114, 101>>), Buf(<<112, 114, 101, 0>>),
      Buf(<<>>), Buf(<<195, 169>>), Buf(<<255>>), Buf(<<112, 114, 101, 255>>),
      Buf(<<195>>), NullBuf }

FewPorts == {Buf(PRE), Buf(POST), Buf(ISYN), Buf(<<255>>), NullBuf}

PairPorts == {Buf(PRE), Buf(ISYN), NullBuf}

Obj(members) == <<TPunct("{")>> \o members \o <<TPunct("}")>>

Member(key, tok) == <<TStr(key), TPunct(":"), tok>>

Comma == <<TPunct(",")>>

\* {"g_fast": 1.0}
CfgGFast == Obj(Member("g_fast", TNum(10, -1)))

\* {"e_syn": -1, "gain": 7}
CfgESyn == Obj(Member("e_syn", TNum(-1, 0)) \o Comma \o Member("gain", TNum(7, 0)))

\* {"s_fast": 1, "v_fast": 0.0}
CfgKinetics == Obj(Member("s_fast", TNum(1, 0)) \o Comma \o Member("v_fast", TNum(0, -1)))

\* {"g_fast": 0.208, "e_syn": -1.92, "s_fast": 0.44, "v_fast": -1.66}
CfgDefaults ==
    Obj(Member("g_fast", TNum(208, -3)) \o Comma \o Member("e_syn", TNum(-192, -2))
        \o Comma \o Member("s_fast", TNum(44, -2)) \o Comma \o Member("v_fast", TNum(-166, -2)))

\* {"g_fast": "high", "s_fast": 1.0}
CfgMixed == Obj(Member("g_fast", TStr("high")) \o Comma \o Member("s_fast", TNum(10, -1)))

\* {"e_syn": null, "v_fast": true}
CfgLiterals == Obj(Member("e_syn", TLit("null")) \o Comma \o Member("v_fast", TLit("true")))

\* {"g_fast": 0.5, "g_fast": 1.0}
CfgDuplicate == Obj(Member("g_fast", TNum(5, -1)) \o Comma \o Member("g_fast", TNum(10, -1)))

\* {"params": {"g_fast": 1.0}}
CfgNested == Obj(<<TStr("params"), TPunct(":")>> \o CfgGFast)

\* {}
CfgEmpty == Obj(<<>>)

\* [1.0]
CfgArray == <<TPunct("["), TNum(10, -1), TPunct("]")>>

\* {"g_fast": 1.0
CfgTruncated == <<TPunct("{")>> \o Member("g_fast", TNum(10, -1))

\* {"g_fast": 1.0}}
CfgTrailing == CfgGFast \o <<TPunct("}")>>

\* {"g_fast": 1.0,}
CfgTrailingComma == Obj(Member("g_fast", TNum(10, -1)) \o Comma)

\* {"g_fast" 1.0}
CfgNoColon == Obj(<<TStr("g_fast"), TNum(10, -1)>>)

\* {"s_fast": 1.0, "g_fast": 1.0 \xff
CfgCutValid ==
    <<TPunct("{")>> \o Member("s_fast", TNum(10, -1)) \o Comma
        \o Member("g_fast", TNum(10, -1)) \o <<TBad>>

\* bytes that spell no JSON at all, and no bytes
CfgGarbage == <<TBad>>

CfgNoBytes == <<>>

\* {"g_fast": 1.0, "x": [[ .. []] .. ]}: under the key x, arrays nested until,
\* with the object around them, the innermost one is RecursionLimit deep
Repeat(n, tok) == [i \in 1..n |-> tok]

CfgDeep ==
    Obj(Member("g_fast", TNum(10, -1)) \o Comma \o <<TStr("x"), TPunct(":")>>
        \o Repeat(RecursionLimit - 1, TPunct("[")) \o Repeat(RecursionLimit - 1, TPunct("]")))

\* {"g_fast": 1.0, "x": 1e400}
CfgHuge == Obj(Member("g_fast", TNum(10, -1)) \o Comma \o Member("x", TNum(1, 400)))

Payloads ==
    { Data(CfgGFast), Data(CfgESyn), Data(CfgKinetics), Data(CfgDefaults), Data(CfgMixed),
      Data(CfgLiterals), Data(CfgDuplicate), Data(CfgNested), Data(CfgEmpty),
      Data(CfgArray), Data(CfgTruncated), Data(CfgTrailing), Data(CfgTrailingComma),
      Data(CfgNoColon), Data(CfgCutValid), Data(CfgGarbage), Data(CfgNoBytes), NullData }

FewPayloads == {Data(CfgGFast), Data(CfgTruncated), NullData}

NoPayloads == {Data(CfgTruncated), NullData}

DeepPayloads ==
    { Data(CfgGFast), Data(CfgKinetics), Data(CfgNested), Data(CfgDeep), Data(CfgHuge),
      NullData }

(***************************************************************************)
(* Specifications                                                          *)
(***************************************************************************)
\* the state once the library is loaded: no allocation yet
Boot(addrs) ==
    /\ allocated = {}
    /\ heap = [a \in addrs |-> Unallocated]
    /\ call = NoCall

\* any call of the PluginApi table, with arguments from the given sets; the
\* handles passed are the live ones and those of nulls
Calls(nulls, ids, values, ports, payloads) ==
    LET Handles == nulls \cup allocated
    IN  \/ \E id \in ids : Create(id)
        \/ \E h \in Handles : Destroy(h)
        \/ \E h \in Handles : MetaJson(h)
        \/ \E h \in Handles : InputsJson(h)
        \/ \E h \in Handles : OutputsJson(h)
        \/ \E h \in Handles, data \in payloads : SetConfigJson(h, data)
        \/ \E h \in Handles, port \in ports, value \in values : SetInput(h, port, value)
        \/ \E h \in Handles, tick \in Ticks : Process(h, tick)
        \/ \E h \in Handles, port \in ports : GetOutput(h, port)

\* one node, every payload
Init == Boot({1})

Next == Calls({}, {1}, InputValues, FewPorts, Payloads)

Spec == Init /\ [][Next]_vars

\* one node that keeps the parameters it was created with (no payload it is
\* sent parses), every port-name buffer, a wider range of input values
NextFresh == Calls({}, {1}, WideValues, Ports, NoPayloads)

SpecFresh == Init /\ [][NextFresh]_vars

\* one node, payloads that nest and payloads at the limits of the parser
NextDeep == Calls({}, {1}, InputValues, PairPorts, DeepPayloads)

SpecDeep == Init /\ [][NextDeep]_vars

\* two nodes and the null handle
InitPair == Boot({1, 2})

NextPair == Calls({NULL}, {1}, InputValues, PairPorts, FewPayloads)

SpecPair == InitPair /\ [][NextPair]_vars

(***************************************************************************)
(* Properties                                                              *)
(***************************************************************************)
Params(p) == <<p.g_fast, p.e_syn, p.s_fast, p.v_fast>>

Inputs(p) == <<p.pre, p.post>>

\* the synapse equation with the documented default parameters
\* g_fast = 0.208, e_syn = -1.92, s_fast = 0.44, v_fast = -1.66
DocumentedCurrent(pre, post) ==
    Round(Div(Mul(F64(2080), Sub(F64(post), F64(-19200))),
              Add(One, Exp(Mul(F64(4400), Sub(F64(-16600), F64(pre)))))))

\* the same, computed once for every pair of the input values written
DocumentedTable ==
    [k \in WideValues \X WideValues |-> DocumentedCurrent(k[1], k[2])] @@ <<>>

\* C1: on a handle that has the parameters it was created with, process
\* followed by get_output("i_syn") returns
\* g_fast*(post-e_syn)/(1+exp(s_fast*(v_fast-pre))) of the inputs written, and
\* 0.2695 (to four decimals) for pre = 0, post = 0.
C1_AdvanceThenReadIsSynapseCurrent ==
    [][ ( /\ call.op = "process" /\ call.h # NULL
          /\ call'.op = "get_output" /\ call'.h = call.h /\ call'.port = Buf(ISYN) )
        => LET p == heap[call.h].plugin
           IN  /\ call'.ret = DocumentedTable[<<p.pre, p.post>>]
               /\ (p.pre = 0 /\ p.post = 0) => call'.ret = 2695 ]_vars

C1_Witness ==
    /\ call.op = "get_output" /\ call.h # NULL /\ call.port = Buf(ISYN)
    /\ heap[call.h].plugin.pre = -3 * Scale
    /\ heap[call.h].plugin.post = (3 * Scale) \div 2
    /\ call.ret = DocumentedCurrent(-3 * Scale, (3 * Scale) \div 2)
    /\ call.ret # 0

\* C2: set_input and set_config_json never write the stored output: across
\* such a call the output of every node, and what get_output("i_syn") reads,
\* are unchanged; right after a process the output still is the current
\* computed from the inputs and parameters that process saw.
C2_OnlyAdvanceWritesOutput ==
    [][ call'.op \in {"set_input", "set_config_json"}
        => /\ \A a \in allocated :
                /\ heap'[a].plugin.output = heap[a].plugin.output
                /\ ReadOutput(heap', a, Buf(ISYN)) = ReadOutput(heap, a, Buf(ISYN))
           /\ (call.op = "process" /\ call.h # NULL /\ call'.h = call.h)
                => heap'[call.h].plugin.output
                     = PluginProcess(heap[call.h].plugin, heap[call.h].ctx).output ]_vars

\* a write that changed an input or a parameter left a now stale, nonzero output
C2_Witness ==
    /\ call.op \in {"set_input", "set_config_json"} /\ call.h # NULL
    /\ heap[call.h].plugin.output # 0
    /\ heap[call.h].plugin.output
         # PluginProcess(heap[call.h].plugin, heap[call.h].ctx).output

\* whether the lexemes of a payload hold the string key anywhere
HasKeyToken(toks, key) == \E i \in 1..Len(toks) : toks[i] = TStr(key)

WellFormed ==
    { CfgGFast, CfgESyn, CfgKinetics, CfgDefaults, CfgMixed, CfgLiterals, CfgDuplicate,
      CfgNested, CfgEmpty, CfgArray, CfgDeep, CfgHuge }

\* C3: set_config_json with a well-formed payload overwrites exactly the
\* parameters whose key is present with a number: a parameter whose key is
\* absent keeps its value, other keys change nothing (whatever their values,
\* deeply nested ones and huge numbers included), and nothing but the four parameters changes.
\* {"g_fast": 1.0} sets g_fast to 1.0 and leaves e_syn, s_fast and v_fast as
\* they were.
C3_ConfigOverwritesPresentKeysOnly ==
    [][ ( /\ call'.op = "set_config_json" /\ call'.h # NULL /\ call'.data.ptr # NULL
          /\ call'.data.toks \in WellFormed )
        => LET toks == call'.data.toks
               old  == heap[call'.h].plugin
               new  == heap'[call'.h].plugin
           IN  /\ ~HasKeyToken(toks, "g_fast") => new.g_fast = old.g_fast
               /\ ~HasKeyToken(toks, "e_syn") => new.e_syn = old.e_syn
               /\ ~HasKeyToken(toks, "s_fast") => new.s_fast = old.s_fast
               /\ ~HasKeyToken(toks, "v_fast") => new.v_fast = old.v_fast
               /\ Inputs(new) = Inputs(old) /\ new.output = old.output /\ new.id = old.id
               /\ heap'[call'.h].ctx = heap[call'.h].ctx
               /\ allocated' = allocated
               /\ toks \in {CfgGFast, CfgDeep, CfgHuge}
                    => Params(new) = <<Scale, old.e_syn, old.s_fast, old.v_fast>>
               /\ toks = CfgESyn => Params(new) = <<old.g_fast, -Scale, old.s_fast, old.v_fast>>
               /\ toks = CfgKinetics => Params(new) = <<old.g_fast, old.e_syn, Scale, 0>>
               /\ toks = CfgDefaults => Params(new) = <<2080, -19200, 4400, -16600>>
               /\ toks = CfgDuplicate => Params(new) = <<Scale, old.e_syn, old.s_fast, old.v_fast>>
               /\ toks \in {CfgLiterals, CfgNested, CfgEmpty, CfgArray}
                    => Params(new) = Params(old) ]_vars

Unparseable ==
    { CfgTruncated, CfgTrailing, CfgTrailingComma, CfgNoColon, CfgCutValid, CfgGarbage,
      CfgNoBytes }

\* C4: set_config_json with an unparseable payload changes nothing: not the
\* four parameters, not the inputs, not the output.
C4_UnparseableConfigChangesNothing ==
    [][ (call'.op = "set_config_json" /\ call'.data.toks \in Unparseable)
        => heap' = heap /\ allocated' = allocated ]_vars

\* a payload cut off after two valid members arrived at a reconfigured node
\* with inputs written and an output computed
C4_Witness ==
    /\ call.op = "set_config_json" /\ call.h # NULL /\ call.data = Data(CfgCutValid)
    /\ Params(heap[call.h].plugin) = <<DefaultGFast, -Scale, DefaultSFast, DefaultVFast>>
    /\ heap[call.h].plugin.pre # 0
    /\ heap[call.h].plugin.output # 0

\* payloads that are not an object of recognized keys mapping to numbers
Malformed == Unparseable \cup {CfgMixed, CfgLiterals}

\* C5: set_config_json never applies a malformed payload in part: when the
\* payload does not parse, or a recognized key maps to something that is not a
\* number, no parameter changes.
C5_MalformedConfigIsDiscardedWhole ==
    [][ (call'.op = "set_config_json" /\ call'.h # NULL /\ call'.data.toks \in Malformed)
        => Params(heap'[call'.h].plugin) = Params(heap[call'.h].plugin) ]_vars

\* C6: set_input with a port name other than "pre" and "post", or with bytes
\* that are not UTF-8, leaves both inputs as they were, so the next process
\* computes what it would have computed without the call.
C6_UnknownPortWritesNothing ==
    [][ (call'.op = "set_input" /\ call'.port \notin {Buf(PRE), Buf(POST)})
        => /\ allocated' = allocated
           /\ \A a \in allocated :
                /\ Inputs(heap'[a].plugin) = Inputs(heap[a].plugin)
                /\ \A t \in Ticks :
                     Advance(heap'[a], t).plugin.output = Advance(heap[a], t).plugin.output ]_vars

\* "pre" followed by a byte that is not UTF-8, with a value pre does not have
C6_Witness ==
    /\ call.op = "set_input" /\ call.h # NULL
    /\ call.port = Buf(<<112, 114, 101, 255>>)
    /\ call.value # heap[call.h].plugin.pre
    /\ call.value # heap[call.h].plugin.post

\* C7: get_output with any port name but "i_syn" returns 0.0 in every state.
C7_OtherPortsReadZero ==
    /\ (call.op = "get_output" /\ call.port # Buf(ISYN)) => call.ret = 0
    /\ \A a \in allocated : \A port \in Ports \ {Buf(ISYN)} : ReadOutput(heap, a, port) = 0

C7_Witness ==
    /\ call.op = "get_output" /\ call.h # NULL /\ call.port = Buf(PRE)
    /\ heap[call.h].plugin.output # 0
    /\ Params(heap[call.h].plugin) # Params(New(0))
    /\ call.ret = 0

\* C8: with the null handle, set_config_json, set_input, process and destroy
\* change nothing, get_output returns 0.0, and meta_json, inputs_json and
\* outputs_json return what they return for a live handle.
C8_NullHandleIsHarmless ==
    [][ (call'.h = NULL /\ call'.op \notin {"create", "load"})
        => /\ heap' = heap /\ allocated' = allocated
           /\ call'.op = "get_output" => call'.ret = 0
           /\ call'.op = "meta_json"
                => /\ call'.text
                        = "{\"kind\":\"fast_chemical_synapse\",\"name\":\"Fast Chemical Synapse\"}"
                   /\ \A a \in allocated : MetaText(a) = call'.text
           /\ call'.op = "inputs_json"
                => /\ call'.text = "[\"pre\",\"post\"]"
                   /\ \A a \in allocated : InputsText(a) = call'.text
           /\ call'.op = "outputs_json"
                => /\ call'.text = "[\"i_syn\"]"
                   /\ \A a \in allocated : OutputsText(a) = call'.text ]_vars

\* get_output("i_syn") on the null handle while a node holds a nonzero output
C8_Witness ==
    /\ call.op = "get_output" /\ call.h = NULL /\ call.port = Buf(ISYN)
    /\ call.ret = 0
    /\ \E a \in allocated : heap[a].plugin.output # 0

\* C9: process is memoryless.  The output it stores is the output any node
\* with the same inputs and parameters computes, whatever that node's tick,
\* output and history, and at whatever tick; and a process right after a
\* process of the same node leaves the output as it is.
C9_AdvanceIsMemoryless ==
    [][ (call'.op = "process" /\ call'.h # NULL)
        => LET h == call'.h
           IN  /\ \A a \in allocated :
                    ( /\ Inputs(heap'[a].plugin) = Inputs(heap'[h].plugin)
                      /\ Params(heap'[a].plugin) = Params(heap'[h].plugin) )
                    => \A t \in Ticks :
                         Advance(heap'[a], t).plugin.output = heap'[h].plugin.output
               /\ (call.op = "process" /\ call.h = h)
                    => heap'[h].plugin.output = heap[h].plugin.output ]_vars

\* a node was advanced while another node with the same inputs and parameters
\* holds a different tick and a different (stale) output
C9_Witness ==
    /\ call.op = "process" /\ call.h # NULL
    /\ \E a \in allocated \ {call.h} :
         /\ Inputs(heap[a].plugin) = Inputs(heap[call.h].plugin)
         /\ Params(heap[a].plugin) = Params(heap[call.h].plugin)
         /\ heap[a].ctx.tick # heap[call.h].ctx.tick
         /\ heap[a].plugin.output # heap[call.h].plugin.output
         /\ heap[a].plugin.output # 0

\* C10: a call on one handle leaves every other live handle's state (inputs,
\* parameters, output, tick) as it was, and leaves it live.
C10_HandlesAreIndependent ==
    [][ call'.op \in {"set_config_json", "set_input", "process", "get_output", "destroy"}
        => \A b \in allocated \ {call'.h} : b \in allocated' /\ heap'[b] = heap[b] ]_vars

\* a write reached one node while the other node holds a different input,
\* different parameters and an output of its own
C10_Witness ==
    /\ call.op = "set_input" /\ call.h # NULL /\ call.port = Buf(PRE)
    /\ heap[call.h].plugin.pre = call.value
    /\ \E b \in allocated \ {call.h} :
         /\ heap[b].plugin.pre # call.value
         /\ heap[b].plugin.g_fast # heap[call.h].plugin.g_fast
         /\ heap[b].plugin.output # 0

====
